---- MODULE Spec2Model ----
\* A model of streams::basic_stream<char> (include/stream/stream.hh): a
\* non-owning view over a buffer of characters that is narrowed by the
\* scanning operations.  Text is a sequence of characters; positions are
\* 0-based as in std::basic_string_view, and size_type is an unsigned
\* integer of SizeBits bits.
EXTENDS Integers, Sequences, FiniteSets, TLC

\* ------------------------------------------------------------------ bounds
MaxLen == 5        \* longest buffer a stream is constructed over
MaxPat == 2        \* longest text argument (substring, delimiter, character set)
MaxExtract == 2    \* largest number of outputs of extract()
SizeBits == 16     \* width of size_type in the model

Chars == {"a", "b"}
NoChar == "-"

SizeMod == 2 ^ SizeBits
npos == SizeMod - 1

RECURSIVE TextsOfLen(_)
TextsOfLen(n) ==
    IF n = 0 THEN {<<>>}
    ELSE {Append(t, c) : t \in TextsOfLen(n - 1), c \in Chars}

TextsUpTo(n) == UNION {TextsOfLen(k) : k \in 0..n}

Texts == TextsUpTo(MaxLen)
Pats == TextsUpTo(MaxPat)
Preds == SUBSET Chars
Counts == 0..(MaxLen + 1)

Min2(a, b) == IF a < b THEN a ELSE b
SetMin(S) == CHOOSE x \in S : \A y \in S : x <= y
SetMax(S) == CHOOSE x \in S : \A y \in S : y <= x

\* ------------------------------------------- std::basic_string_view
size(t) == Len(t)
At(t, i) == t[i + 1]

\* substr(pos, count): [pos, pos + min(count, size - pos))
substr(t, pos, count) ==
    LET rlen == Min2(count, size(t) - pos)
    IN  SubSeq(t, pos + 1, pos + rlen)

remove_prefix(t, n) == SubSeq(t, n + 1, size(t))
remove_suffix(t, n) == SubSeq(t, 1, size(t) - n)

\* find(s, pos): the lowest position >= pos at which s occurs, or npos
find(t, s, pos) ==
    LET hits == {i \in pos..(size(t) - size(s)) : SubSeq(t, i + 1, i + size(s)) = s}
    IN  IF hits = {} THEN npos ELSE SetMin(hits)

\* find(c): the lowest position holding the character c, or npos
find_char(t, c) ==
    LET hits == {i \in 0..(size(t) - 1) : At(t, i) = c}
    IN  IF hits = {} THEN npos ELSE SetMin(hits)

find_first_of(t, chars) ==
    LET hits == {i \in 0..(size(t) - 1) : find_char(chars, At(t, i)) # npos}
    IN  IF hits = {} THEN npos ELSE SetMin(hits)

find_first_not_of(t, chars) ==
    LET hits == {i \in 0..(size(t) - 1) : find_char(chars, At(t, i)) = npos}
    IN  IF hits = {} THEN npos ELSE SetMin(hits)

find_last_not_of(t, chars) ==
    LET hits == {i \in 0..(size(t) - 1) : find_char(chars, At(t, i)) = npos}
    IN  IF hits = {} THEN npos ELSE SetMax(hits)

\* ------------------------------------------------------- basic_stream
empty(t) == size(t) = 0
has(t, n) == size(t) >= n

starts_with_char(t, prefix) == ~empty(t) /\ At(t, 0) = prefix
starts_with(t, prefix) ==
    size(prefix) <= size(t) /\ SubSeq(t, 1, size(prefix)) = prefix
starts_with_any(t, prefix) ==
    ~empty(t) /\ find_char(prefix, At(t, 0)) # npos

\* One removal of n characters from a view of the given size, made by
\* _m_advance, remove_prefix or remove_suffix; every method reports the
\* removals it makes, in order.
Removal(by, n, sz) == [by |-> by, n |-> n, size |-> sz]

\* _m_advance(n): the first n characters, removed from the stream
_m_advance(t, n) ==
    [txt |-> substr(t, 0, n), text |-> remove_prefix(t, n),
     removals |-> <<Removal("_m_advance", n, size(t))>>]

\* take as it would be without the clamp of n to the size
take_unclamped(t, n) == _m_advance(t, n)

\* take as it would be if a count beyond the size took nothing instead of
\* being clamped to the size
take_nothing_when_short(t, n) ==
    _m_advance(t, IF n > size(t) THEN 0 ELSE n)

take(t, n) ==
    _m_advance(t, IF n > size(t) THEN size(t) ELSE n)

drop(t, n) == take(t, n).text

\* consume as it would be if it dropped the first character before testing it
consume_drops_first(t, c) ==
    IF ~starts_with_char(t, c)
    THEN [ok |-> FALSE, text |-> drop(t, 1), removals |-> take(t, 1).removals]
    ELSE [ok |-> TRUE, text |-> drop(t, 1), removals |-> take(t, 1).removals]

consume(t, c) ==
    IF ~starts_with_char(t, c) THEN [ok |-> FALSE, text |-> t, removals |-> <<>>]
    ELSE [ok |-> TRUE, text |-> drop(t, 1), removals |-> take(t, 1).removals]

\* extract as it would be if it took the characters before checking that
\* there are enough of them
extract_takes_first(t, outs, k) ==
    LET extracted == take(t, k)
    IN  IF size(extracted.txt) < k
        THEN [ok |-> FALSE, text |-> extracted.text, chars |-> outs,
              removals |-> extracted.removals]
        ELSE [ok |-> TRUE, text |-> extracted.text,
              chars |-> [i \in 1..k |-> At(extracted.txt, i - 1)],
              removals |-> extracted.removals]

\* extract(chars...): k characters into the k outputs, or nothing
extract(t, outs, k) ==
    IF ~has(t, k)
    THEN [ok |-> FALSE, text |-> t, chars |-> outs, removals |-> <<>>]
    ELSE LET extracted == take(t, k)
         IN  [ok |-> TRUE, text |-> extracted.text,
              chars |-> [i \in 1..k |-> At(extracted.txt, i - 1)],
              removals |-> extracted.removals]

\* lines(line_separator): _m_text | std::views::split(line_separator).
\* find_next of split_view: the next occurrence of the pattern at or after it,
\* as <<begin, end>>; an empty pattern matches after one character.
split_find_next(t, pattern, it) ==
    LET p == find(t, pattern, it)
        b == IF p = npos THEN size(t) ELSE p
        e == IF p = npos THEN size(t) ELSE p + size(pattern)
    IN  IF b # size(t) /\ empty(pattern) THEN <<b + 1, e + 1>> ELSE <<b, e>>

\* the elements from the iterator (cur, next, trailing_empty) to the end
RECURSIVE split_from(_, _, _, _, _)
split_from(t, pattern, cur, next, trailing_empty) ==
    IF cur = size(t) /\ ~trailing_empty THEN <<>>
    ELSE <<substr(t, cur, next[1] - cur)>> \o
         (IF next[1] # size(t)
          THEN IF next[2] = size(t)
               THEN split_from(t, pattern, next[2], <<next[2], next[2]>>, TRUE)
               ELSE split_from(t, pattern, next[2],
                               split_find_next(t, pattern, next[2]), FALSE)
          ELSE split_from(t, pattern, next[1], next, FALSE))

\* lines as it would be if the empty segment after a trailing separator
\* were not yielded
lines_without_trailing(t, line_separator) ==
    LET all == split_from(t, line_separator, 0,
                          split_find_next(t, line_separator, 0), FALSE)
    IN  IF Len(all) > 1 /\ all[Len(all)] = <<>>
        THEN SubSeq(all, 1, Len(all) - 1)
        ELSE all

lines(t, line_separator) ==
    split_from(t, line_separator, 0, split_find_next(t, line_separator, 0), FALSE)

\* take_delimited(string, delimiter)
take_delimited(t, string0, delimiter) ==
    IF ~starts_with(t, delimiter)
    THEN [ok |-> FALSE, text |-> t, string |-> string0, removals |-> <<>>]
    ELSE LET t1 == drop(t, size(delimiter))
             dropped == take(t, size(delimiter)).removals
             pos == find(t1, delimiter, size(delimiter))
         IN  IF pos # npos
             THEN [ok |-> TRUE,
                   text |-> remove_prefix(t1, pos + size(delimiter)),
                   string |-> substr(t1, 0, pos),
                   removals |-> Append(dropped,
                       Removal("remove_prefix", pos + size(delimiter), size(t1)))]
             ELSE [ok |-> FALSE, text |-> t1, string |-> string0,
                   removals |-> dropped]

\* take_delimited(c, string)
take_delimited_char(t, c, string0) == take_delimited(t, string0, <<c>>)

\* take_delimited_any(string, delimiters)
take_delimited_any(t, string0, delimiters) ==
    IF ~starts_with_any(t, delimiters)
    THEN [ok |-> FALSE, text |-> t, string |-> string0, removals |-> <<>>]
    ELSE LET first == take(t, 1)
             delim == At(first.txt, 0)
             t1 == first.text
             pos == find_char(t1, delim)
         IN  IF pos # npos
             THEN [ok |-> TRUE,
                   text |-> remove_prefix(t1, pos + 1),
                   string |-> substr(t1, 0, pos),
                   removals |-> Append(first.removals,
                       Removal("remove_prefix", pos + 1, size(t1)))]
             ELSE [ok |-> FALSE, text |-> t1, string |-> string0,
                   removals |-> first.removals]

\* the loop of _m_take_until_cond: the value of i when the loop ends
RECURSIVE until_loop(_, _, _)
until_loop(t, c, i) ==
    IF i <= size(t)
    THEN IF At(t, i - 1) \in c THEN i ELSE until_loop(t, c, i + 1)
    ELSE i

\* _m_take_until_cond<_or_empty>(c), the predicate c being the set of
\* characters it holds of
_m_take_until_cond(or_empty, t, c) ==
    LET i == until_loop(t, c, 1)
    IN  IF i > size(t)
        THEN IF or_empty THEN [txt |-> <<>>, text |-> t, removals |-> <<>>]
             ELSE _m_advance(t, size(t))
        ELSE _m_advance(t, i - 1)

take_until_char(t, c) == _m_advance(t, Min2(find_char(t, c), size(t)))
\* take_until(text) as it would be if it also removed the terminator
take_until_text_past(t, s) ==
    _m_advance(t, Min2(find(t, s, 0) + size(s), size(t)))

take_until_text(t, s) == _m_advance(t, Min2(find(t, s, 0), size(t)))
take_until_pred(t, c) == _m_take_until_cond(FALSE, t, c)
take_until_any(t, chars) == _m_advance(t, Min2(find_first_of(t, chars), size(t)))

take_until_any_or_empty(t, chars) ==
    LET pos == find_first_of(t, chars)
    IN  IF pos = npos THEN [txt |-> <<>>, text |-> t, removals |-> <<>>] ELSE _m_advance(t, pos)

take_until_or_empty_char(t, c) ==
    LET pos == find_char(t, c)
    IN  IF pos = npos THEN [txt |-> <<>>, text |-> t, removals |-> <<>>] ELSE _m_advance(t, pos)

\* take_until_or_empty(text) as it would be without the test for npos
take_until_or_empty_text_unguarded(t, s) ==
    _m_advance(t, Min2(find(t, s, 0), size(t)))

take_until_or_empty_text(t, s) ==
    LET pos == find(t, s, 0)
    IN  IF pos = npos THEN [txt |-> <<>>, text |-> t, removals |-> <<>>] ELSE _m_advance(t, pos)

take_until_or_empty_pred(t, c) == _m_take_until_cond(TRUE, t, c)

\* the loop of _m_take_while_cond: the value of i when the loop ends
RECURSIVE while_loop(_, _, _)
while_loop(t, c, i) ==
    IF i <= size(t)
    THEN IF At(t, i - 1) \notin c THEN i ELSE while_loop(t, c, i + 1)
    ELSE i

_m_take_while_cond(or_empty, t, c) ==
    LET i == while_loop(t, c, 1)
    IN  IF i > size(t)
        THEN IF or_empty THEN [txt |-> <<>>, text |-> t, removals |-> <<>>]
             ELSE _m_advance(t, size(t))
        ELSE _m_advance(t, i - 1)

\* _m_take_while(c): the predicate ch == c
_m_take_while(or_empty, t, c) ==
    _m_take_while_cond(or_empty, t, {ch \in Chars : ch = c})

\* _m_take_while_any as it would be with the test of chars.find inverted
_m_take_while_any_inverted(or_empty, t, chars) ==
    _m_take_while_cond(or_empty, t, {ch \in Chars : find_char(chars, ch) = npos})

\* _m_take_while_any(chars): the predicate chars.find(ch) != npos
_m_take_while_any(or_empty, t, chars) ==
    _m_take_while_cond(or_empty, t, {ch \in Chars : find_char(chars, ch) # npos})

take_while_char(t, c) == _m_take_while(FALSE, t, c)
take_while_pred(t, c) == _m_take_while_cond(FALSE, t, c)
take_while_any(t, chars) == _m_take_while_any(FALSE, t, chars)
take_while_any_or_empty(t, chars) == _m_take_while_any(TRUE, t, chars)
\* take_while_or_empty(c) as it would be if it instantiated _m_take_while<false>
take_while_or_empty_char_consuming(t, c) == _m_take_while(FALSE, t, c)

take_while_or_empty_char(t, c) == _m_take_while(TRUE, t, c)
take_while_or_empty_pred(t, c) == _m_take_while_cond(TRUE, t, c)

\* trim_front as it would be if, on a stream of only such characters, it
\* assigned the character set instead of the empty view
trim_front_assigns_chars(t, chars) ==
    LET pos == find_first_not_of(t, chars)
    IN  IF pos = npos THEN chars ELSE remove_prefix(t, pos)

trim_front(t, chars) ==
    LET pos == find_first_not_of(t, chars)
    IN  IF pos = npos THEN <<>> ELSE remove_prefix(t, pos)

\* trim_back as it would be if it removed one character more than the run
trim_back_one_more(t, chars) ==
    LET pos == find_last_not_of(t, chars)
    IN  IF pos = npos THEN <<>> ELSE remove_suffix(t, size(t) - pos)

trim_back(t, chars) ==
    LET pos == find_last_not_of(t, chars)
    IN  IF pos = npos THEN <<>> ELSE remove_suffix(t, size(t) - pos - 1)

trim(t, chars) == trim_back(trim_front(t, chars), chars)

\* the removals trim_front, trim_back and trim make
trim_front_removals(t, chars) ==
    LET pos == find_first_not_of(t, chars)
    IN  IF pos = npos THEN <<>> ELSE <<Removal("remove_prefix", pos, size(t))>>

trim_back_removals(t, chars) ==
    LET pos == find_last_not_of(t, chars)
    IN  IF pos = npos THEN <<>>
        ELSE <<Removal("remove_suffix", size(t) - pos - 1, size(t))>>

trim_removals(t, chars) ==
    trim_front_removals(t, chars) \o trim_back_removals(trim_front(t, chars), chars)

\* operator[](start, end): end - start is computed in size_type
slice(t, start, end) ==
    LET start1 == IF start > size(t) THEN size(t) ELSE start
        end1 == IF end > size(t) THEN size(t) ELSE end
    IN  substr(t, start1, (end1 - start1) % SizeMod)

\* the drop_ forms: (void) take_...(x); return *this
drop_until_char(t, c) == take_until_char(t, c).text
drop_until_text(t, s) == take_until_text(t, s).text
drop_until_pred(t, c) == take_until_pred(t, c).text
drop_until_any(t, chars) == take_until_any(t, chars).text
drop_until_any_or_empty(t, chars) == take_until_any_or_empty(t, chars).text
drop_until_or_empty_char(t, c) == take_until_or_empty_char(t, c).text
drop_until_or_empty_text(t, s) == take_until_or_empty_text(t, s).text
drop_until_or_empty_pred(t, c) == take_until_or_empty_pred(t, c).text
drop_while_char(t, c) == take_while_char(t, c).text
drop_while_pred(t, c) == take_while_pred(t, c).text
drop_while_any(t, chars) == take_while_any(t, chars).text
drop_while_any_or_empty(t, chars) == take_while_any_or_empty(t, chars).text
drop_while_or_empty_char(t, c) == take_while_or_empty_char(t, c).text
drop_while_or_empty_pred(t, c) == take_while_or_empty_pred(t, c).text

\* ------------------------------------------------------------- state
VARIABLES
    buffer,     \* the text the stream was constructed over
    _m_text,    \* the stream's view
    call,       \* the call the caller has just made: its name and arguments
    prev,       \* _m_text when that call was made
    ret_ok,     \* the last call's result, when it is a bool
    ret_text,   \* the last call's result, when it is text
    ret_lines,  \* the last call's result, when it is a range of streams
    string_in,  \* the caller's text_type& argument before the last call
    string,     \* the caller's text_type& argument after the last call
    outs_in,    \* the caller's char_type& arguments before the last call
    outs,       \* the caller's char_type& arguments after the last call
    removals    \* the removals the last call made on the view, in order

vars == <<buffer, _m_text, call, prev, ret_ok, ret_text, ret_lines,
          string_in, string, outs_in, outs, removals>>

Call(name, c, s, n, m, p) ==
    [name |-> name, c |-> c, s |-> s, n |-> n, m |-> m, p |-> p]

\* no call made, or its results already discarded
NoCall == Call("none", NoChar, <<>>, 0, 0, {})
Idle == call = NoCall

CallC(name, c) == Call(name, c, <<>>, 0, 0, {})
CallS(name, s) == Call(name, NoChar, s, 0, 0, {})
CallP(name, p) == Call(name, NoChar, <<>>, 0, 0, p)
CallN(name, n) == Call(name, NoChar, <<>>, n, 0, {})

\* values the caller's output variables hold before a call
StringIns == {<<>>, <<"a">>}
OutsIns(k) == {[i \in 1..k |-> c] : c \in Chars}

NoRefs ==
    /\ string_in' = <<>>
    /\ string' = <<>>
    /\ outs_in' = <<>>
    /\ outs' = <<>>

\* a call that returns text: r is the record [txt, text] of the method
ReturnsText(cl, r) ==
    /\ Idle
    /\ call' = cl
    /\ prev' = _m_text
    /\ _m_text' = r.text
    /\ ret_ok' = FALSE
    /\ ret_text' = r.txt
    /\ ret_lines' = <<>>
    /\ removals' = r.removals
    /\ NoRefs
    /\ UNCHANGED buffer

\* a call that returns *this: text is the stream after the call, made the
\* removals of the method it forwards to
ReturnsThis(cl, text, made) ==
    /\ Idle
    /\ call' = cl
    /\ prev' = _m_text
    /\ _m_text' = text
    /\ ret_ok' = FALSE
    /\ ret_text' = <<>>
    /\ ret_lines' = <<>>
    /\ removals' = made
    /\ NoRefs
    /\ UNCHANGED buffer

\* basic_stream(text): a stream over any buffer, no call made yet
Init ==
    /\ buffer \in Texts
    /\ _m_text = buffer
    /\ call = NoCall
    /\ prev = buffer
    /\ ret_ok = FALSE
    /\ ret_text = <<>>
    /\ ret_lines = <<>>
    /\ string_in = <<>>
    /\ string = <<>>
    /\ outs_in = <<>>
    /\ outs = <<>>
    /\ removals = <<>>

Consume ==
    Idle /\ \E c \in Chars :
        LET r == consume(_m_text, c)
        IN  /\ call' = CallC("consume", c)
            /\ prev' = _m_text
            /\ _m_text' = r.text
            /\ ret_ok' = r.ok
            /\ ret_text' = <<>>
            /\ ret_lines' = <<>>
            /\ removals' = r.removals
            /\ NoRefs
            /\ UNCHANGED buffer

Drop == \E n \in Counts : ReturnsThis(CallN("drop", n), drop(_m_text, n), take(_m_text, n).removals)
Take == \E n \in Counts : ReturnsText(CallN("take", n), take(_m_text, n))

Extract ==
    Idle /\ \E k \in 0..MaxExtract : \E o \in OutsIns(k) :
        LET r == extract(_m_text, o, k)
        IN  /\ call' = CallN("extract", k)
            /\ prev' = _m_text
            /\ _m_text' = r.text
            /\ ret_ok' = r.ok
            /\ ret_text' = <<>>
            /\ ret_lines' = <<>>
            /\ removals' = r.removals
            /\ string_in' = <<>>
            /\ string' = <<>>
            /\ outs_in' = o
            /\ outs' = r.chars
            /\ UNCHANGED buffer

Lines ==
    \E sep \in Pats :
        /\ Idle
        /\ call' = CallS("lines", sep)
        /\ prev' = _m_text
        /\ _m_text' = _m_text
        /\ ret_ok' = FALSE
        /\ ret_text' = <<>>
        /\ ret_lines' = lines(_m_text, sep)
        /\ removals' = <<>>
        /\ NoRefs
        /\ UNCHANGED buffer

Slice ==
    \E start \in Counts, end \in Counts :
        /\ Idle
        /\ call' = Call("slice", NoChar, <<>>, start, end, {})
        /\ prev' = _m_text
        /\ _m_text' = _m_text
        /\ ret_ok' = FALSE
        /\ ret_text' = slice(_m_text, start, end)
        /\ ret_lines' = <<>>
        /\ removals' = <<>>
        /\ NoRefs
        /\ UNCHANGED buffer

\* a take_delimited call: r is the record [ok, text, string] of the method
Delimited(cl, s0, r) ==
    /\ Idle
    /\ call' = cl
    /\ prev' = _m_text
    /\ _m_text' = r.text
    /\ ret_ok' = r.ok
    /\ ret_text' = <<>>
    /\ ret_lines' = <<>>
    /\ removals' = r.removals
    /\ string_in' = s0
    /\ string' = r.string
    /\ outs_in' = <<>>
    /\ outs' = <<>>
    /\ UNCHANGED buffer

TakeDelimited ==
    \E d \in Pats, s0 \in StringIns :
        Delimited(CallS("take_delimited", d), s0, take_delimited(_m_text, s0, d))

TakeDelimitedChar ==
    \E c \in Chars, s0 \in StringIns :
        Delimited(CallC("take_delimited_char", c), s0, take_delimited_char(_m_text, c, s0))

TakeDelimitedAny ==
    \E d \in Pats, s0 \in StringIns :
        Delimited(CallS("take_delimited_any", d), s0, take_delimited_any(_m_text, s0, d))

TakeUntilChar == \E c \in Chars : ReturnsText(CallC("take_until_char", c), take_until_char(_m_text, c))
TakeUntilText == \E s \in Pats : ReturnsText(CallS("take_until_text", s), take_until_text(_m_text, s))
TakeUntilPred == \E p \in Preds : ReturnsText(CallP("take_until_pred", p), take_until_pred(_m_text, p))
TakeUntilAny == \E s \in Pats : ReturnsText(CallS("take_until_any", s), take_until_any(_m_text, s))
TakeUntilAnyOrEmpty == \E s \in Pats : ReturnsText(CallS("take_until_any_or_empty", s), take_until_any_or_empty(_m_text, s))
TakeUntilOrEmptyChar == \E c \in Chars : ReturnsText(CallC("take_until_or_empty_char", c), take_until_or_empty_char(_m_text, c))
TakeUntilOrEmptyText == \E s \in Pats : ReturnsText(CallS("take_until_or_empty_text", s), take_until_or_empty_text(_m_text, s))
TakeUntilOrEmptyPred == \E p \in Preds : ReturnsText(CallP("take_until_or_empty_pred", p), take_until_or_empty_pred(_m_text, p))

TakeWhileChar == \E c \in Chars : ReturnsText(CallC("take_while_char", c), take_while_char(_m_text, c))
TakeWhilePred == \E p \in Preds : ReturnsText(CallP("take_while_pred", p), take_while_pred(_m_text, p))
TakeWhileAny == \E s \in Pats : ReturnsText(CallS("take_while_any", s), take_while_any(_m_text, s))
TakeWhileAnyOrEmpty == \E s \in Pats : ReturnsText(CallS("take_while_any_or_empty", s), take_while_any_or_empty(_m_text, s))
TakeWhileOrEmptyChar == \E c \in Chars : ReturnsText(CallC("take_while_or_empty_char", c), take_while_or_empty_char(_m_text, c))
TakeWhileOrEmptyPred == \E p \in Preds : ReturnsText(CallP("take_while_or_empty_pred", p), take_while_or_empty_pred(_m_text, p))

DropUntilChar == \E c \in Chars : ReturnsThis(CallC("drop_until_char", c), drop_until_char(_m_text, c), take_until_char(_m_text, c).removals)
DropUntilText == \E s \in Pats : ReturnsThis(CallS("drop_until_text", s), drop_until_text(_m_text, s), take_until_text(_m_text, s).removals)
DropUntilPred == \E p \in Preds : ReturnsThis(CallP("drop_until_pred", p), drop_until_pred(_m_text, p), take_until_pred(_m_text, p).removals)
DropUntilAny == \E s \in Pats : ReturnsThis(CallS("drop_until_any", s), drop_until_any(_m_text, s), take_until_any(_m_text, s).removals)
DropUntilAnyOrEmpty == \E s \in Pats : ReturnsThis(CallS("drop_until_any_or_empty", s), drop_until_any_or_empty(_m_text, s), take_until_any_or_empty(_m_text, s).removals)
DropUntilOrEmptyChar == \E c \in Chars : ReturnsThis(CallC("drop_until_or_empty_char", c), drop_until_or_empty_char(_m_text, c), take_until_or_empty_char(_m_text, c).removals)
DropUntilOrEmptyText == \E s \in Pats : ReturnsThis(CallS("drop_until_or_empty_text", s), drop_until_or_empty_text(_m_text, s), take_until_or_empty_text(_m_text, s).removals)
DropUntilOrEmptyPred == \E p \in Preds : ReturnsThis(CallP("drop_until_or_empty_pred", p), drop_until_or_empty_pred(_m_text, p), take_until_or_empty_pred(_m_text, p).removals)

DropWhileChar == \E c \in Chars : ReturnsThis(CallC("drop_while_char", c), drop_while_char(_m_text, c), take_while_char(_m_text, c).removals)
DropWhilePred == \E p \in Preds : ReturnsThis(CallP("drop_while_pred", p), drop_while_pred(_m_text, p), take_while_pred(_m_text, p).removals)
DropWhileAny == \E s \in Pats : ReturnsThis(CallS("drop_while_any", s), drop_while_any(_m_text, s), take_while_any(_m_text, s).removals)
DropWhileAnyOrEmpty == \E s \in Pats : ReturnsThis(CallS("drop_while_any_or_empty", s), drop_while_any_or_empty(_m_text, s), take_while_any_or_empty(_m_text, s).removals)
DropWhileOrEmptyChar == \E c \in Chars : ReturnsThis(CallC("drop_while_or_empty_char", c), drop_while_or_empty_char(_m_text, c), take_while_or_empty_char(_m_text, c).removals)
DropWhileOrEmptyPred == \E p \in Preds : ReturnsThis(CallP("drop_while_or_empty_pred", p), drop_while_or_empty_pred(_m_text, p), take_while_or_empty_pred(_m_text, p).removals)

Trim == \E s \in Pats : ReturnsThis(CallS("trim", s), trim(_m_text, s), trim_removals(_m_text, s))
TrimFront == \E s \in Pats : ReturnsThis(CallS("trim_front", s), trim_front(_m_text, s), trim_front_removals(_m_text, s))
TrimBack == \E s \in Pats : ReturnsThis(CallS("trim_back", s), trim_back(_m_text, s), trim_back_removals(_m_text, s))

\* The single-threaded caller is done with the results of its call (the
\* returned value and the reference arguments) and goes on to the next one;
\* the stream keeps only its view.
Discard ==
    /\ ~Idle
    /\ call' = NoCall
    /\ prev' = _m_text
    /\ ret_ok' = FALSE
    /\ ret_text' = <<>>
    /\ ret_lines' = <<>>
    /\ removals' = <<>>
    /\ NoRefs
    /\ UNCHANGED <<buffer, _m_text>>

Next ==
    \/ Discard
    \/ Consume \/ Drop \/ Take \/ Extract \/ Lines \/ Slice
    \/ TakeDelimited \/ TakeDelimitedChar \/ TakeDelimitedAny
    \/ TakeUntilChar \/ TakeUntilText \/ TakeUntilPred \/ TakeUntilAny
    \/ TakeUntilAnyOrEmpty \/ TakeUntilOrEmptyChar \/ TakeUntilOrEmptyText
    \/ TakeUntilOrEmptyPred
    \/ TakeWhileChar \/ TakeWhilePred \/ TakeWhileAny
    \/ TakeWhileAnyOrEmpty \/ TakeWhileOrEmptyChar \/ TakeWhileOrEmptyPred
    \/ DropUntilChar \/ DropUntilText \/ DropUntilPred \/ DropUntilAny
    \/ DropUntilAnyOrEmpty \/ DropUntilOrEmptyChar \/ DropUntilOrEmptyText
    \/ DropUntilOrEmptyPred
    \/ DropWhileChar \/ DropWhilePred \/ DropWhileAny
    \/ DropWhileAnyOrEmpty \/ DropWhileOrEmptyChar \/ DropWhileOrEmptyPred
    \/ Trim \/ TrimFront \/ TrimBack

Spec == Init /\ [][Next]_vars

\* ------------------------------------------------------- properties
\* What the properties say about a text, stated without the methods above.
Range(t) == {t[i] : i \in 1..Len(t)}
OccursAt(t, s, i) == i + Len(s) <= Len(t) /\ SubSeq(t, i + 1, i + Len(s)) = s
OccurrencesFrom(t, s, from) == {i \in from..Len(t) : OccursAt(t, s, i)}
Prefix(t, n) == SubSeq(t, 1, n)
Suffix(t, n) == SubSeq(t, n + 1, Len(t))
IsSubstring(s, t) == \E i \in 0..Len(t) : OccursAt(t, s, i)

\* the delimiter of a take_delimited call
Delimiter == IF call.name = "take_delimited_char" THEN <<call.c>> ELSE call.s
IsTakeDelimited == call.name \in {"take_delimited", "take_delimited_char"}

\* C1: take_delimited on a stream that starts with the delimiter and has no
\* closing occurrence of it returns false, leaves the stream as it was and
\* does not write its output.
C1_DelimitedAllOrNothing ==
    (/\ IsTakeDelimited
     /\ OccursAt(prev, Delimiter, 0)
     /\ OccurrencesFrom(prev, Delimiter, Len(Delimiter)) = {})
    => (/\ ret_ok = FALSE
        /\ _m_text = prev
        /\ string = string_in)

\* C2: take_delimited on d ++ body ++ d ++ rest, the second d being the first
\* occurrence after the opening one, returns true, sets the output to body and
\* leaves rest in the stream.
C2_DelimitedSuccess ==
    (/\ IsTakeDelimited
     /\ Delimiter # <<>>
     /\ OccursAt(prev, Delimiter, 0)
     /\ OccurrencesFrom(prev, Delimiter, Len(Delimiter)) # {})
    => LET d == Len(Delimiter)
           close == SetMin(OccurrencesFrom(prev, Delimiter, d))
       IN  /\ ret_ok = TRUE
           /\ string = SubSeq(prev, d + 1, close)
           /\ _m_text = Suffix(prev, close + d)

\* C3: take_delimited_any on a stream whose first character is in the set and
\* does not occur again returns false, leaves the stream as it was and does
\* not write its output.
C3_DelimitedAnyAllOrNothing ==
    (/\ call.name = "take_delimited_any"
     /\ prev # <<>>
     /\ prev[1] \in Range(call.s)
     /\ \A j \in 2..Len(prev) : prev[j] # prev[1])
    => (/\ ret_ok = FALSE
        /\ _m_text = prev
        /\ string = string_in)

\* C4: the slice [start, end) with both indices clamped into [0, size]; empty
\* when start > end after clamping; the stream is not modified.
C4_SliceClamped ==
    call.name = "slice"
    => LET start == Min2(call.n, Len(prev))
           end == Min2(call.m, Len(prev))
       IN  /\ _m_text = prev
           /\ ret_text = IF start > end THEN <<>> ELSE SubSeq(prev, start + 1, end)

\* The positions of prev at which the target of a take_until / drop_until
\* call matches: a character, an exact substring, a member of a character
\* set, or a character the predicate holds of.
UntilCharNames == {"take_until_char", "drop_until_char"}
UntilTextNames == {"take_until_text", "drop_until_text"}
UntilAnyNames == {"take_until_any", "drop_until_any"}
UntilPredNames == {"take_until_pred", "drop_until_pred"}
UntilNames == UntilCharNames \cup UntilTextNames \cup UntilAnyNames \cup UntilPredNames

OrEmptyCharNames == {"take_until_or_empty_char", "drop_until_or_empty_char"}
OrEmptyTextNames == {"take_until_or_empty_text", "drop_until_or_empty_text"}
OrEmptyAnyNames == {"take_until_any_or_empty", "drop_until_any_or_empty"}
OrEmptyPredNames == {"take_until_or_empty_pred", "drop_until_or_empty_pred"}
OrEmptyNames == OrEmptyCharNames \cup OrEmptyTextNames \cup OrEmptyAnyNames \cup OrEmptyPredNames

TakeNames ==
    {"take_until_char", "take_until_text", "take_until_any", "take_until_pred",
     "take_until_or_empty_char", "take_until_or_empty_text",
     "take_until_any_or_empty", "take_until_or_empty_pred"}

Matches ==
    IF call.name \in UntilCharNames \cup OrEmptyCharNames
    THEN {i \in 0..(Len(prev) - 1) : prev[i + 1] = call.c}
    ELSE IF call.name \in UntilTextNames \cup OrEmptyTextNames
    THEN OccurrencesFrom(prev, call.s, 0)
    ELSE IF call.name \in UntilAnyNames \cup OrEmptyAnyNames
    THEN {i \in 0..(Len(prev) - 1) : prev[i + 1] \in Range(call.s)}
    ELSE {i \in 0..(Len(prev) - 1) : prev[i + 1] \in call.p}

\* the take_until form a take_until_or_empty / drop_until_or_empty call
\* corresponds to, applied to prev
Corresponding ==
    IF call.name \in OrEmptyCharNames THEN take_until_char(prev, call.c)
    ELSE IF call.name \in OrEmptyTextNames THEN take_until_text(prev, call.s)
    ELSE IF call.name \in OrEmptyAnyNames THEN take_until_any(prev, call.s)
    ELSE take_until_pred(prev, call.p)

\* C5: an or_empty take_until / drop_until call with no match returns empty
\* text and leaves the stream unchanged; with a match it does what the
\* corresponding take_until form does.
C5_UntilOrEmpty ==
    call.name \in OrEmptyNames
    => IF Matches = {}
       THEN ret_text = <<>> /\ _m_text = prev
       ELSE /\ _m_text = Corresponding.text
            /\ call.name \in TakeNames => ret_text = Corresponding.txt

C5_Witness ==
    /\ call.name = "take_until_or_empty_text"
    /\ Len(call.s) = 2
    /\ Len(prev) >= 3
    /\ Matches = {}
    /\ _m_text = prev
    /\ ret_text = <<>>

\* C6: a take_until / drop_until call removes exactly the prefix before the
\* leftmost match and leaves the terminator at the front; with no match it
\* consumes the whole stream.
C6_UntilLeftmost ==
    call.name \in UntilNames
    => LET cut == IF Matches = {} THEN Len(prev) ELSE SetMin(Matches)
       IN  /\ _m_text = Suffix(prev, cut)
           /\ call.name \in TakeNames => ret_text = Prefix(prev, cut)
           /\ Matches = {} => _m_text = <<>>

C6_Witness ==
    /\ call.name = "take_until_text"
    /\ Len(call.s) = 2
    /\ Matches # {}
    /\ ret_text # <<>>
    /\ OccursAt(_m_text, call.s, 0)
    /\ ret_text \o _m_text = prev

\* C7: take(n) and drop(n) remove exactly min(n, size) characters from the
\* front; take returns them, and drop leaves the stream take leaves.
C7_TakeDropPartition ==
    call.name \in {"take", "drop"}
    => LET k == Min2(call.n, Len(prev))
       IN  /\ Len(_m_text) = Len(prev) - k
           /\ _m_text = Suffix(prev, k)
           /\ call.name = "take" =>
                  /\ ret_text = Prefix(prev, k)
                  /\ ret_text \o _m_text = prev
           /\ call.name = "drop" => _m_text = take(prev, call.n).text
           /\ call.n > Len(prev) => _m_text = <<>>

C7_Witness ==
    /\ call.name = "take"
    /\ prev # <<>>
    /\ call.n > Len(prev)
    /\ ret_text = prev
    /\ _m_text = <<>>

\* the number of successive non-overlapping leftmost occurrences of sep in t
RECURSIVE CountSeparators(_, _)
CountSeparators(t, sep) ==
    IF OccurrencesFrom(t, sep, 0) = {} THEN 0
    ELSE 1 + CountSeparators(Suffix(t, SetMin(OccurrencesFrom(t, sep, 0)) + Len(sep)), sep)

RECURSIVE Join(_, _)
Join(segments, sep) ==
    IF segments = <<>> THEN <<>>
    ELSE IF Len(segments) = 1 THEN segments[1]
    ELSE segments[1] \o sep \o Join(Tail(segments), sep)

\* every segment but the last ends at the leftmost occurrence of sep after
\* its start, and the last one holds no occurrence of sep
SplitsAtLeftmost(segments, sep) ==
    \A i \in 1..Len(segments) :
        IF i < Len(segments)
        THEN OccurrencesFrom(segments[i] \o sep, sep, 0) = {Len(segments[i])}
        ELSE OccurrencesFrom(segments[i], sep, 0) = {}

\* C8 as stated: for every text and non-empty separator, lines(sep) leaves the
\* stream unchanged and yields the k+1 segments between the k successive
\* non-overlapping leftmost occurrences of sep, which joined with sep give the
\* text.
C8_LinesAsStated ==
    (call.name = "lines" /\ call.s # <<>>)
    => /\ _m_text = prev
       /\ Len(ret_lines) = CountSeparators(prev, call.s) + 1
       /\ SplitsAtLeftmost(ret_lines, call.s)
       /\ Join(ret_lines, call.s) = prev

\* C8 amended: the same for every non-empty text; for the empty text the
\* sequence yields no segment at all.
C8_LinesSplit ==
    (call.name = "lines" /\ call.s # <<>>)
    => /\ _m_text = prev
       /\ Join(ret_lines, call.s) = prev
       /\ prev # <<>> =>
              /\ Len(ret_lines) = CountSeparators(prev, call.s) + 1
              /\ SplitsAtLeftmost(ret_lines, call.s)
       /\ prev = <<>> => ret_lines = <<>>

C8_Witness ==
    /\ call.name = "lines"
    /\ call.s # <<>>
    /\ Len(ret_lines) >= 3
    /\ ret_lines[1] # <<>>
    /\ ret_lines[Len(ret_lines) - 1] = <<>>
    /\ ret_lines[Len(ret_lines)] = <<>>
    /\ _m_text = prev

MutatingNames ==
    {"consume", "drop", "take", "extract", "take_delimited", "take_delimited_char",
     "take_delimited_any", "trim", "trim_front", "trim_back",
     "take_while_char", "take_while_pred", "take_while_any",
     "take_while_any_or_empty", "take_while_or_empty_char", "take_while_or_empty_pred",
     "drop_while_char", "drop_while_pred", "drop_while_any",
     "drop_while_any_or_empty", "drop_while_or_empty_char", "drop_while_or_empty_pred"}
    \cup UntilNames \cup OrEmptyNames

\* C9: after any sequence of mutating operations the stream's content is a
\* contiguous substring of the buffer it was constructed over, and no
\* operation leaves the stream larger than it found it.
C9_ShrinkOnly ==
    /\ IsSubstring(_m_text, buffer)
    /\ call.name \in MutatingNames =>
           /\ Len(_m_text) <= Len(prev)
           /\ IsSubstring(_m_text, prev)

C9_Witness ==
    /\ call.name = "trim_back"
    /\ _m_text # <<>>
    /\ Len(_m_text) < Len(prev)
    /\ Len(prev) < Len(buffer)
    /\ ~OccursAt(buffer, prev, 0)

\* C10: extract with k outputs on fewer than k characters returns false,
\* writes no output and leaves the stream unchanged; otherwise it returns
\* true, the i-th output is the i-th character and the stream advances by k.
C10_ExtractAtomic ==
    call.name = "extract"
    => IF Len(prev) < call.n
       THEN /\ ret_ok = FALSE
            /\ outs = outs_in
            /\ _m_text = prev
       ELSE /\ ret_ok = TRUE
            /\ Len(outs) = call.n
            /\ \A i \in 1..call.n : outs[i] = prev[i]
            /\ _m_text = Suffix(prev, call.n)

C10_Witness ==
    /\ call.name = "extract"
    /\ call.n = 2
    /\ Len(prev) = 1
    /\ outs_in[1] # prev[1]
    /\ ret_ok = FALSE
    /\ outs = outs_in
    /\ _m_text = prev

\* C11: consume(c) returns true iff the stream is non-empty and starts with
\* c; it then has removed exactly the first character; when it returns false
\* the stream is unchanged.
C11_Consume ==
    call.name = "consume"
    => /\ ret_ok = (prev # <<>> /\ prev[1] = call.c)
       /\ ret_ok => (Len(_m_text) = Len(prev) - 1 /\ _m_text = Tail(prev))
       /\ ~ret_ok => _m_text = prev

C11_Witness ==
    /\ call.name = "consume"
    /\ Len(prev) >= 2
    /\ prev[1] # call.c
    /\ prev[2] = call.c
    /\ ret_ok = FALSE
    /\ _m_text = prev

\* the length of the longest prefix (suffix) of t made of characters of S
LeadingRun(t, S) ==
    SetMax({k \in 0..Len(t) : \A i \in 1..k : t[i] \in S})
TrailingRun(t, S) ==
    SetMax({k \in 0..Len(t) : \A i \in (Len(t) - k + 1)..Len(t) : t[i] \in S})

\* C12: trim_front / trim_back / trim remove exactly the maximal leading /
\* trailing / leading and trailing run of characters of the set, and nothing
\* else; a stream of such characters only, or an empty one, ends up empty.
C12_TrimSelective ==
    LET S == Range(call.s)
        lead == LeadingRun(prev, S)
        trail == TrailingRun(prev, S)
    IN  /\ call.name = "trim_front" => _m_text = Suffix(prev, lead)
        /\ call.name = "trim_back" => _m_text = Prefix(prev, Len(prev) - trail)
        /\ call.name = "trim" => _m_text = SubSeq(prev, lead + 1, Len(prev) - trail)
        /\ (call.name \in {"trim_front", "trim_back", "trim"} /\ Range(prev) \subseteq S)
               => _m_text = <<>>

C12_Witness ==
    /\ call.name = "trim"
    /\ Len(_m_text) = 3
    /\ Len(prev) = 5
    /\ _m_text[2] \in Range(call.s)
    /\ _m_text[1] \notin Range(call.s)
    /\ OccursAt(prev, _m_text, 1)

\* The characters a take_while / drop_while call accepts.
WhileCharNames == {"take_while_char", "drop_while_char"}
WhileAnyNames == {"take_while_any", "drop_while_any"}
WhilePredNames == {"take_while_pred", "drop_while_pred"}
WhileNames == WhileCharNames \cup WhileAnyNames \cup WhilePredNames

WhileOrEmptyCharNames == {"take_while_or_empty_char", "drop_while_or_empty_char"}
WhileOrEmptyAnyNames == {"take_while_any_or_empty", "drop_while_any_or_empty"}
WhileOrEmptyPredNames == {"take_while_or_empty_pred", "drop_while_or_empty_pred"}
WhileOrEmptyNames ==
    WhileOrEmptyCharNames \cup WhileOrEmptyAnyNames \cup WhileOrEmptyPredNames

TakeWhileNames ==
    {"take_while_char", "take_while_any", "take_while_pred",
     "take_while_or_empty_char", "take_while_any_or_empty", "take_while_or_empty_pred"}

Accepted ==
    IF call.name \in WhileCharNames \cup WhileOrEmptyCharNames THEN {call.c}
    ELSE IF call.name \in WhileAnyNames \cup WhileOrEmptyAnyNames THEN Range(call.s)
    ELSE call.p

\* C13: a take_while / drop_while call removes exactly the longest prefix of
\* accepted characters; afterwards the stream is empty or starts with a
\* character that is not accepted, and result ++ stream is the old content.
C13_WhileLongestPrefix ==
    call.name \in WhileNames
    => LET cut == LeadingRun(prev, Accepted)
       IN  /\ _m_text = Suffix(prev, cut)
           /\ _m_text = <<>> \/ _m_text[1] \notin Accepted
           /\ call.name \in TakeWhileNames =>
                  /\ ret_text = Prefix(prev, cut)
                  /\ ret_text \o _m_text = prev

C13_Witness ==
    /\ call.name = "take_while_any"
    /\ Len(ret_text) >= 2
    /\ _m_text # <<>>
    /\ _m_text[1] \notin Range(call.s)
    /\ Range(_m_text) \cap Range(call.s) # {}
    /\ ret_text \o _m_text = prev

\* the take_while form a take_while_or_empty / drop_while_or_empty call
\* corresponds to, applied to prev
CorrespondingWhile ==
    IF call.name \in WhileOrEmptyCharNames THEN take_while_char(prev, call.c)
    ELSE IF call.name \in WhileOrEmptyAnyNames THEN take_while_any(prev, call.s)
    ELSE take_while_pred(prev, call.p)

\* C14: an or_empty take_while / drop_while call on a stream all of whose
\* characters are accepted (the empty stream included) returns empty text and
\* leaves the stream unchanged; otherwise it does what the corresponding
\* take_while form does.
C14_WhileOrEmpty ==
    call.name \in WhileOrEmptyNames
    => IF Range(prev) \subseteq Accepted
       THEN ret_text = <<>> /\ _m_text = prev
       ELSE /\ _m_text = CorrespondingWhile.text
            /\ call.name \in TakeWhileNames => ret_text = CorrespondingWhile.txt

C14_Witness ==
    /\ call.name = "take_while_or_empty_char"
    /\ Len(prev) >= 2
    /\ Range(prev) = {call.c}
    /\ ret_text = <<>>
    /\ _m_text = prev

\* C15: no call of a public method makes _m_advance, remove_prefix or
\* remove_suffix remove more characters than the view then holds.
C15_RemovalsInBounds ==
    \A i \in 1..Len(removals) : removals[i].n <= removals[i].size

C15_Witness ==
    /\ call.name = "take_delimited"
    /\ ret_ok = TRUE
    /\ Len(removals) = 2
    /\ removals[1].by = "_m_advance"
    /\ removals[2].by = "remove_prefix"
    /\ removals[2].n = removals[2].size
    /\ removals[2].n >= 2

====
